---- MODULE Spec2Model ----
(***************************************************************************)
(* Model of src/main.py: the Telegram relay bot that downloads a video     *)
(* with yt-dlp, shrinks it with ffmpeg when it is near the Telegram limit  *)
(* and sends it back.  One job is one invocation of handle_url.  A job's   *)
(* steps are the stretches of handle_url between two awaits: the event     *)
(* loop runs each stretch without interleaving another coroutine.          *)
(***************************************************************************)
EXTENDS Integers, Sequences, FiniteSets, TLC

(* ------------------------------ bounds -------------------------------- *)

\* Number of messages (handler invocations) the dispatcher receives in a
\* run.  Jobs are numbered in the order their messages arrive.
NumJobs == 3

\* Calls (of the transport or of an engine) that may fail in a run with
\* several jobs, and downloads in such a run that may need shrinking.
MaxFaults == 2
MaxLarge == 1

(* ------------------------ constants of main.py ------------------------ *)

MAX_HEIGHT_TARGET == 480
TELEGRAM_LIMIT_MB == 2000
SAFE_LIMIT_MB == 1900
SEND_AS_VIDEO_THRESHOLD_MB == 50
\* CONCURRENCY = asyncio.Semaphore(2): the initial value of the semaphore.
SemaphoreInit == 2
\* human_mb divides by 1024 * 1024.
MB == 1048576

\* The runs about the queue at the gate take one more message than NumJobs,
\* so that two jobs can wait while two hold the permits.
Jobs == 1..(NumJobs + 1)

(* ------------------------------ helpers ------------------------------- *)

\* A message text is modelled by the two parts the patterns look at: the
\* host and the first path segment of the link it contains ("" when none).
YOUTUBE_RE(text) ==
    \/ text.host = "youtube.com" /\ text.path \in {"watch?v=", "shorts/"}
    \/ text.host = "youtu.be"

INSTAGRAM_RE(text) ==
    text.host = "instagram.com" /\ text.path \in {"reel/", "p/", "tv/"}

\* A test of the host alone: any link to a known site passes.
is_supported_urlHostOnly(url) == url.host \in {"youtube.com", "youtu.be", "instagram.com"}

is_supported_url(url) == YOUTUBE_RE(url) \/ INSTAGRAM_RE(url)

platform_name(url) ==
    IF YOUTUBE_RE(url) THEN "YouTube"
    ELSE IF INSTAGRAM_RE(url) THEN "Instagram"
    ELSE "Unknown"

\* Megabytes of 1000 * 1000 bytes, cut to hundredths.
human_mbDecimal(bytes_) == bytes_ \div 10000

\* round(bytes_ / (1024 * 1024), 2), as the integer number of hundredths of
\* a megabyte.  bytes_ / 2^20 is exact in a double, and Python's round()
\* rounds the exact value half to even.
human_mb(bytes_) ==
    LET q    == bytes_ \div MB
        r    == bytes_ % MB
        f    == (r * 100) \div MB
        rem  == (r * 100) % MB
        up   == (2 * rem > MB) \/ (2 * rem = MB /\ f % 2 = 1)
    IN  q * 100 + f + (IF up THEN 1 ELSE 0)

\* A limit given in MB, in the unit human_mb returns.
Hundredths(mb) == mb * 100

Digit == <<"0", "1", "2", "3", "4", "5", "6", "7", "8", "9">>

RECURSIVE ToStr(_)
ToStr(n) == IF n < 10 THEN Digit[n + 1] ELSE ToStr(n \div 10) \o Digit[(n % 10) + 1]

\* A file name is the sequence of its dot-separated components.
NoPath == << >>

\* A replacement of everything after the first dot.
with_suffixAll(name, suffix) == <<name[1]>> \o suffix

\* Path.with_suffix: the last component is the suffix when there are at
\* least two; it is replaced by the components of the new suffix.
with_suffix(name, suffix) ==
    (IF Len(name) > 1 THEN SubSeq(name, 1, Len(name) - 1) ELSE name) \o suffix

\* f".{max_h}p.crf{crf}.mp4"
CandidateSuffix(max_h, crf) == <<ToStr(max_h) \o "p", "crf" \o ToStr(crf), "mp4">>

\* The ladder of shrink_until_ok.
attempts ==
    << [max_h |-> MAX_HEIGHT_TARGET, crf |-> 28],
       [max_h |-> MAX_HEIGHT_TARGET, crf |-> 30],
       [max_h |-> 360, crf |-> 28],
       [max_h |-> 360, crf |-> 30] >>

(* --------------------------- the environment -------------------------- *)

\* What the outside world can present to the bot in one run.
SupportedText == [host |-> "youtube.com", path |-> "shorts/"]
OtherTexts ==
    { [host |-> "youtu.be", path |-> ""],
      [host |-> "instagram.com", path |-> "reel/"] }
UnsupportedText == [host |-> "youtube.com", path |-> "playlist"]
OtherUnsupported ==
    { [host |-> "instagram.com", path |-> "stories/"],
      [host |-> "", path |-> ""] }

ExtractedName == <<"clip", "mp4">>
\* A name without a suffix, and one that looks like a ladder output already.
OtherNames == { <<"clip">>, <<"clip", "480p", "crf28", "mp4">> }

\* Artifact sizes in bytes: below, at, just above and well above the limits.
SmallSizes == { 10 * MB }
LargeSizes == { 2040 * MB }
FineSizes ==
    { 10 * MB, 50 * MB, 50 * MB + 1, 100 * MB,
      1900 * MB, 1900 * MB + 1, 1950 * MB,
      2000 * MB, 2000 * MB + 1, 2040 * MB }
FineOutputs ==
    { 10 * MB, 1900 * MB, 1900 * MB + 1, 1950 * MB, 2000 * MB + 1, 2040 * MB }

\* Bytes of a partial file an engine leaves behind when it fails.
PartialBytes == MB

VARIABLES
    env,          \* the inputs of the run: jobs, texts, names, sizes
    budget,       \* the failures and large downloads the run may still see
    CONCURRENCY,  \* the semaphore: [value, waiters]
    job,          \* job[j]: the locals of the j-th handle_url invocation
    scratch,      \* scratch[j]: the job's TemporaryDirectory
    history       \* history[j]: the calls the job made, in order

vars == <<env, budget, CONCURRENCY, job, scratch, history>>


(* ------------------------- texts sent to the chat --------------------- *)

RejectText == "Send a valid YouTube/Instagram link."
DownloadingText(plat) == "Downloading from " \o plat
CompressingText(max_h, crf) ==
    "Large video. Compressing (" \o ToStr(max_h) \o "p, CRF " \o ToStr(crf) \o ")"
UploadingText == "Downloaded. Uploading to Telegram"
TooLargeText == "File exceeds Telegram limit (>2GB)."
SendFailedText(e) == "Sending failed: " \o e
FailedText(e) == "Download/convert failed. Error: " \o e

\* The messages of the exceptions the job can see.
TransportError == "Telegram request failed"
ExtractError == "yt-dlp download error"
NotFoundError == "Downloaded file not found"
CompressError == "ffmpeg compress failed"

(* ------------------------------ records ------------------------------- *)

\* One call of the transport.
Call(op, text, ok) ==
    [op |-> op, text |-> text, ok |-> ok, src |-> NoPath, dst |-> NoPath,
     max_h |-> 0, crf |-> 0, bytes |-> 0]

\* One call of an engine (yt-dlp, ffmpeg) or one upload of a file.
FileCall(op, ok, src, dst, max_h, crf, bytes) ==
    [op |-> op, text |-> "", ok |-> ok, src |-> src, dst |-> dst,
     max_h |-> max_h, crf |-> crf, bytes |-> bytes]

NewJob ==
    [pc |-> "idle", url |-> [host |-> "", path |-> ""], status_msg |-> "",
     filepath |-> NoPath, current |-> NoPath, candidate |-> NoPath,
     k |-> 0, e |-> "", escaped |-> FALSE]

\* The handler has returned, or an exception has left it (escaped): its
\* locals are gone.
Returned(r, escaped) == [NewJob EXCEPT !.pc = "done", !.url = r.url, !.escaped = escaped]

NoScratch == [exists |-> FALSE, files |-> {}]

(* ---------------------------- file system ----------------------------- *)

Exists(files, name) == \E f \in files : f.name = name

Stat(files, name) == (CHOOSE f \in files : f.name = name).bytes

\* A write that leaves nothing else in the directory.
WriteAlone(files, name, bytes) == {[name |-> name, bytes |-> bytes]}

Write(files, name, bytes) ==
    {f \in files : f.name # name} \cup {[name |-> name, bytes |-> bytes]}

(* ------------------- asyncio.Semaphore (CPython 3.11+) ---------------- *)

\* locked() that forgets the value: only a queue makes a job wait.
lockedNoValue(sem) == sem.waiters # << >>

\* Semaphore.locked(): no permit is free, or somebody is already waiting.
locked(sem) == sem.value = 0 \/ sem.waiters # << >>

Pending(sem) == {i \in 1..Len(sem.waiters) : ~sem.waiters[i].done}

\* A wake-up that takes the waiter from the wrong end of the queue.
wake_up_nextLast(sem) ==
    IF Pending(sem) = {} THEN sem
    ELSE LET i == CHOOSE i \in Pending(sem) : \A m \in Pending(sem) : i >= m
         IN  [value |-> sem.value - 1,
              waiters |-> [sem.waiters EXCEPT ![i].done = TRUE]]

\* Semaphore._wake_up_next(): hand a permit to the first waiter whose
\* future is not done yet.
wake_up_next(sem) ==
    IF Pending(sem) = {} THEN sem
    ELSE LET i == CHOOSE i \in Pending(sem) : \A m \in Pending(sem) : i <= m
         IN  [value |-> sem.value - 1,
              waiters |-> [sem.waiters EXCEPT ![i].done = TRUE]]

\* A release that forgets to wake a waiter.
releaseNoWake(sem) == [sem EXCEPT !.value = @ + 1]

\* Semaphore.release()
release(sem) == wake_up_next([sem EXCEPT !.value = @ + 1])

RECURSIVE WakeWhileFree(_)
\* The tail of acquire(): while self._value > 0: wake the next waiter.
WakeWhileFree(sem) ==
    IF sem.value > 0 /\ Pending(sem) # {} THEN WakeWhileFree(wake_up_next(sem))
    ELSE sem

Position(sem, j) == {i \in 1..Len(sem.waiters) : sem.waiters[i].job = j}

Without(seq, i) == SubSeq(seq, 1, i - 1) \o SubSeq(seq, i + 1, Len(seq))

(* --------------------------- size decisions --------------------------- *)

\* handle_url: if size_mb > SAFE_LIMIT_MB
NeedsShrink(size_mb) == size_mb > Hundredths(SAFE_LIMIT_MB)

\* shrink_until_ok: if size_mb <= SAFE_LIMIT_MB: return current / break
SmallEnough(size_mb) == size_mb <= Hundredths(SAFE_LIMIT_MB)

\* send_file: if size_mb > TELEGRAM_LIMIT_MB
OverLimit(size_mb) == size_mb > Hundredths(TELEGRAM_LIMIT_MB)

\* send_file: if size_mb <= SEND_AS_VIDEO_THRESHOLD_MB
AsVideo(size_mb) == size_mb <= Hundredths(SEND_AS_VIDEO_THRESHOLD_MB)

(* ------------------------------- Init --------------------------------- *)

Start(e) ==
    /\ env = e
    /\ budget = [faults |-> e.faults, large |-> e.large]
    /\ CONCURRENCY = [value |-> SemaphoreInit, waiters |-> << >>]
    /\ job = [j \in Jobs |-> NewJob]
    /\ scratch = [j \in Jobs |-> NoScratch]
    /\ history = [j \in Jobs |-> << >>]

\* Several messages at once; few sizes, failures and large downloads, and
\* no history.
Init ==
    Start([jobs |-> 1..NumJobs, texts |-> {SupportedText, UnsupportedText},
           names |-> {ExtractedName}, sizes |-> SmallSizes, big |-> LargeSizes,
           outputs |-> LargeSizes,
           faults |-> MaxFaults, large |-> MaxLarge, trace |-> FALSE])

\* One message more, so that a queue of two forms at the gate; one text per
\* kind, small downloads only, one call may fail, no history.
InitGate ==
    Start([jobs |-> Jobs, texts |-> {SupportedText, UnsupportedText},
           names |-> {ExtractedName}, sizes |-> SmallSizes, big |-> {},
           outputs |-> {},
           faults |-> 1, large |-> 0, trace |-> FALSE])

\* One message; every text, name and size, any call may fail, and the
\* history of the job is kept.
InitJob ==
    Start([jobs |-> {1},
           texts |-> {SupportedText, UnsupportedText} \cup OtherTexts \cup OtherUnsupported,
           names |-> {ExtractedName} \cup OtherNames,
           sizes |-> {b \in FineSizes : b <= 1024 * MB},
           big |-> {b \in FineSizes : b > 1024 * MB},
           outputs |-> FineOutputs,
           faults |-> MaxFaults + 1, large |-> MaxLarge, trace |-> TRUE])

(* ------------------------------ actions ------------------------------- *)

\* The calls that may still fail.
Outcomes == IF budget.faults > 0 THEN BOOLEAN ELSE {TRUE}

\* history observes the calls of a job; it is kept only in runs that ask
\* for it.
Record(j, call) ==
    history' = IF env.trace THEN [history EXCEPT ![j] = Append(@, call)] ELSE history

\* The job made a call; a failed one uses up one of the run's failures.
Log(j, call) ==
    /\ Record(j, call)
    /\ budget' = IF call.ok THEN budget ELSE [budget EXCEPT !.faults = @ - 1]

\* except Exception as e: the next await is the rewrite of the status message.
Raise(r, e) == [r EXCEPT !.pc = "edit_failed", !.e = e]

\* A return from the ladder that goes straight to send_file, without the
\* "Uploading" status.
ReturnSkipsStatus(r, current) ==
    [r EXCEPT !.current = current, !.filepath = current, !.pc = "upload_video"]

\* The return of shrink_until_ok into handle_url, up to the next await.
Return(r, current) ==
    [r EXCEPT !.current = current, !.filepath = current, !.pc = "edit_uploading"]

\* acquire()/release() without try/finally: an escaping exception skips the
\* release.
EscapeNoRelease(r, e) == [r EXCEPT !.pc = "done", !.e = e, !.escaped = TRUE]

\* An exception that leaves the body of "async with CONCURRENCY" before the
\* TemporaryDirectory exists: __aexit__ runs next.
EscapeSemaphore(r, e) == [r EXCEPT !.pc = "exit_semaphore", !.e = e, !.escaped = TRUE]

\* mkdtemp() with an rmtree at the end of the block instead of a context
\* manager: an escaping exception skips the removal.
EscapeNoCleanup(r, e) == [r EXCEPT !.pc = "exit_semaphore", !.e = e, !.escaped = TRUE]

\* An exception raised inside the except clause leaves the "with
\* tempfile.TemporaryDirectory()" block: its __exit__ runs next.
EscapeTmp(r, e) == [r EXCEPT !.pc = "exit_tmp", !.e = e, !.escaped = TRUE]

\* "current = candidate" only in the branch that breaks: an exhausted
\* ladder returns what it had before the last attempt.
AfterCompressKeepsPrevious(r, dst, size_mb) ==
    IF SmallEnough(size_mb) THEN Return(r, dst)
    ELSE IF r.k < Len(attempts)
         THEN [r EXCEPT !.current = dst, !.k = @ + 1, !.pc = "edit_compressing"]
    ELSE Return(r, r.current)

\* The rest of the loop body after a successful ffmpeg_compress: the
\* candidate becomes current; break, next attempt, or the loop is exhausted.
AfterCompress(r, dst, size_mb) ==
    IF SmallEnough(size_mb) THEN Return(r, dst)
    ELSE IF r.k < Len(attempts)
         THEN [r EXCEPT !.current = dst, !.k = @ + 1, !.pc = "edit_compressing"]
    ELSE Return(r, dst)

\* "async with CONCURRENCY" around the whole handler: the permit is asked
\* for before the URL test.
HandleUrlGateFirst(j) ==
    /\ job[j].pc = "idle"
    /\ j \in env.jobs
    /\ \A i \in env.jobs : i < j => job[i].pc # "idle"
    /\ \E text \in env.texts :
         IF ~locked(CONCURRENCY)
         THEN /\ CONCURRENCY' = [CONCURRENCY EXCEPT !.value = @ - 1]
              /\ job' = [job EXCEPT ![j].url = text,
                                    ![j].pc = IF is_supported_url(text)
                                              THEN "answer_downloading" ELSE "answer_reject"]
         ELSE /\ CONCURRENCY' =
                    [CONCURRENCY EXCEPT !.waiters = Append(@, [job |-> j, done |-> FALSE])]
              /\ job' = [job EXCEPT ![j].url = text, ![j].pc = "acquire"]
    /\ UNCHANGED <<env, budget, scratch, history>>

\* handle_url up to its first await: the URL test, then the entry of
\* "async with CONCURRENCY", which takes a free permit at once and
\* otherwise queues the job.
HandleUrl(j) ==
    /\ job[j].pc = "idle"
    /\ j \in env.jobs
    /\ \A i \in env.jobs : i < j => job[i].pc # "idle"
    /\ \E text \in env.texts :
         IF ~is_supported_url(text)
         THEN /\ job' = [job EXCEPT ![j].url = text, ![j].pc = "answer_reject"]
              /\ UNCHANGED CONCURRENCY
         ELSE IF ~locked(CONCURRENCY)
         THEN /\ CONCURRENCY' = [CONCURRENCY EXCEPT !.value = @ - 1]
              /\ job' = [job EXCEPT ![j].url = text, ![j].pc = "answer_downloading"]
         ELSE /\ CONCURRENCY' =
                    [CONCURRENCY EXCEPT !.waiters = Append(@, [job |-> j, done |-> FALSE])]
              /\ job' = [job EXCEPT ![j].url = text, ![j].pc = "acquire"]
    /\ UNCHANGED <<env, budget, scratch, history>>

\* The rejection reply; the handler returns (or the exception escapes).
AnswerReject(j) ==
    /\ job[j].pc = "answer_reject"
    /\ \E ok \in Outcomes :
         /\ Log(j, Call("answer", RejectText, ok))
         /\ job' = [job EXCEPT ![j] = Returned(@, ~ok)]
    /\ UNCHANGED <<env, CONCURRENCY, scratch>>

\* A queued job whose future was set resumes in acquire(): it leaves the
\* queue and passes on any permit that became free meanwhile.  The event
\* loop resumes the jobs in the order their futures were set.
Acquire(j) ==
    /\ job[j].pc = "acquire"
    /\ \E i \in Position(CONCURRENCY, j) :
         /\ CONCURRENCY.waiters[i].done
         /\ \A m \in 1..(i - 1) : ~CONCURRENCY.waiters[m].done
         /\ CONCURRENCY' =
              WakeWhileFree([CONCURRENCY EXCEPT !.waiters = Without(@, i)])
    /\ job' = [job EXCEPT ![j].pc = "answer_downloading"]
    /\ UNCHANGED <<env, budget, scratch, history>>

\* status_msg = await message.answer("Downloading from ..."), then the
\* TemporaryDirectory is created.  A failing send escapes the handler.
AnswerDownloading(j) ==
    /\ job[j].pc = "answer_downloading"
    /\ \E ok \in Outcomes :
         LET text == DownloadingText(platform_name(job[j].url)) IN
         /\ Log(j, Call("answer", text, ok))
         /\ IF ok
            THEN /\ job' = [job EXCEPT ![j].status_msg = text, ![j].pc = "record_video"]
                 /\ scratch' = [scratch EXCEPT ![j] = [exists |-> TRUE, files |-> {}]]
            ELSE /\ job' = [job EXCEPT ![j] = EscapeSemaphore(@, TransportError)]
                 /\ UNCHANGED scratch
    /\ UNCHANGED <<env, CONCURRENCY>>

\* await bot.send_chat_action(chat, RECORD_VIDEO)
RecordVideoAction(j) ==
    /\ job[j].pc = "record_video"
    /\ \E ok \in Outcomes :
         /\ Log(j, Call("send_chat_action", "record_video", ok))
         /\ job' = [job EXCEPT ![j] =
                      IF ok THEN [@ EXCEPT !.pc = "extract"] ELSE Raise(@, TransportError)]
    /\ UNCHANGED <<env, CONCURRENCY, scratch>>

\* What yt-dlp can do: raise (with or without a partial file), return a
\* path that does not exist, or write a file of some size.
ExtractResults ==
    { [raised |-> FALSE, written |-> TRUE, name |-> n, bytes |-> b] :
        n \in env.names,
        b \in env.sizes \cup (IF budget.large > 0 THEN env.big ELSE {}) }
    \cup (IF budget.faults = 0 THEN {}
          ELSE { [raised |-> TRUE, written |-> w, name |-> ExtractedName \o <<"part">>,
                  bytes |-> PartialBytes] : w \in BOOLEAN }
               \cup { [raised |-> FALSE, written |-> FALSE, name |-> n, bytes |-> 0] :
                        n \in env.names })

\* filepath, title = await asyncio.to_thread(_extract), the existence test,
\* the size test and the entry of shrink_until_ok up to its first await.
Extract(j) ==
    /\ job[j].pc = "extract"
    /\ \E r \in ExtractResults :
         LET files == IF r.written THEN Write(scratch[j].files, r.name, r.bytes)
                      ELSE scratch[j].files
         IN
         /\ scratch' = [scratch EXCEPT ![j].files = files]
         /\ Record(j, FileCall("extract_info", ~r.raised, NoPath,
                               IF r.raised THEN NoPath ELSE r.name, 0, 0,
                               IF r.written THEN r.bytes ELSE 0))
         /\ budget' = IF r.raised \/ ~r.written THEN [budget EXCEPT !.faults = @ - 1]
                       ELSE IF r.bytes \in env.big THEN [budget EXCEPT !.large = @ - 1]
                       ELSE budget
         /\ job' = [job EXCEPT ![j] =
              IF r.raised THEN Raise(@, ExtractError)
              ELSE IF ~Exists(files, r.name)
                   THEN Raise([@ EXCEPT !.filepath = r.name], NotFoundError)
              ELSE IF NeedsShrink(human_mb(Stat(files, r.name)))
                   THEN IF SmallEnough(human_mb(Stat(files, r.name)))
                        THEN Return(@, r.name)
                        ELSE [@ EXCEPT !.filepath = r.name, !.current = r.name,
                                       !.k = 1, !.pc = "edit_compressing"]
              ELSE [@ EXCEPT !.filepath = r.name, !.pc = "edit_uploading"]]
    /\ UNCHANGED <<env, CONCURRENCY>>

\* The head of the loop body: the "Compressing" status, then the candidate
\* path is derived from the current one.
EditCompressing(j) ==
    /\ job[j].pc = "edit_compressing"
    /\ \E ok \in Outcomes :
         LET a    == attempts[job[j].k]
             text == CompressingText(a.max_h, a.crf)
         IN
         /\ Log(j, Call("edit_text", text, ok))
         /\ job' = [job EXCEPT ![j] =
              IF ok
              THEN [@ EXCEPT !.status_msg = text, !.pc = "ffmpeg_compress",
                             !.candidate = with_suffix(job[j].current,
                                                       CandidateSuffix(a.max_h, a.crf))]
              ELSE Raise(@, TransportError)]
    /\ UNCHANGED <<env, CONCURRENCY, scratch>>

\* What ffmpeg can do: exit 0 or not, having written the destination or not.
FfmpegResults ==
    { [returncode |-> 0, written |-> TRUE, bytes |-> b] : b \in env.outputs }
    \cup (IF budget.faults = 0 THEN {}
          ELSE { [returncode |-> 1, written |-> w, bytes |-> PartialBytes] : w \in BOOLEAN }
               \cup { [returncode |-> 0, written |-> FALSE, bytes |-> 0] })

\* await ffmpeg_compress(current, candidate, ...), then the rest of the loop
\* body: the candidate becomes current, and the loop breaks or goes on.
FfmpegCompress(j) ==
    /\ job[j].pc = "ffmpeg_compress"
    /\ \E r \in FfmpegResults :
         LET a     == attempts[job[j].k]
             dst   == job[j].candidate
             files == IF r.written THEN Write(scratch[j].files, dst, r.bytes)
                      ELSE scratch[j].files
             ok    == ~(r.returncode # 0 \/ ~Exists(files, dst))
         IN
         /\ scratch' = [scratch EXCEPT ![j].files = files]
         /\ Log(j, FileCall("ffmpeg", ok, job[j].current, dst, a.max_h, a.crf,
                            IF r.written THEN r.bytes ELSE 0))
         /\ job' = [job EXCEPT ![j] =
              IF ~ok THEN Raise(@, CompressError)
              ELSE AfterCompress(@, dst, human_mb(Stat(files, dst)))]
    /\ UNCHANGED <<env, CONCURRENCY>>

\* await status_msg.edit_text("Downloaded. Uploading to Telegram")
EditUploading(j) ==
    /\ job[j].pc = "edit_uploading"
    /\ \E ok \in Outcomes :
         /\ Log(j, Call("edit_text", UploadingText, ok))
         /\ job' = [job EXCEPT ![j] =
              IF ok THEN [@ EXCEPT !.status_msg = UploadingText, !.pc = "upload_video"]
              ELSE Raise(@, TransportError)]
    /\ UNCHANGED <<env, CONCURRENCY, scratch>>

\* send_file: await bot.send_chat_action(chat, UPLOAD_VIDEO), then the test
\* against the hard limit.
UploadVideoAction(j) ==
    /\ job[j].pc = "upload_video"
    /\ \E ok \in Outcomes :
         /\ Log(j, Call("send_chat_action", "upload_video", ok))
         /\ job' = [job EXCEPT ![j] =
              IF ~ok THEN Raise(@, TransportError)
              ELSE IF OverLimit(human_mb(Stat(scratch[j].files, @.filepath)))
                   THEN [@ EXCEPT !.pc = "answer_too_large"]
              ELSE [@ EXCEPT !.pc = "answer_file"]]
    /\ UNCHANGED <<env, CONCURRENCY, scratch>>

\* send_file: the size-exceeded message, then return.
AnswerTooLarge(j) ==
    /\ job[j].pc = "answer_too_large"
    /\ \E ok \in Outcomes :
         /\ Log(j, Call("answer", TooLargeText, ok))
         /\ job' = [job EXCEPT ![j] =
              IF ok THEN [@ EXCEPT !.pc = "exit_tmp"] ELSE Raise(@, TransportError)]
    /\ UNCHANGED <<env, CONCURRENCY, scratch>>

\* send_file: answer_video or answer_document, chosen by the size.
AnswerFile(j) ==
    /\ job[j].pc = "answer_file"
    /\ \E ok \in Outcomes :
         LET bytes == Stat(scratch[j].files, job[j].filepath)
             op    == IF AsVideo(human_mb(bytes)) THEN "answer_video"
                      ELSE "answer_document"
         IN
         /\ Log(j, FileCall(op, ok, job[j].filepath, NoPath, 0, 0, bytes))
         /\ job' = [job EXCEPT ![j] =
              IF ok THEN [@ EXCEPT !.pc = "exit_tmp"]
              ELSE [@ EXCEPT !.pc = "answer_send_failed", !.e = TransportError]]
    /\ UNCHANGED <<env, CONCURRENCY, scratch>>

\* send_file: except Exception as e: the delivery-error message.
AnswerSendFailed(j) ==
    /\ job[j].pc = "answer_send_failed"
    /\ \E ok \in Outcomes :
         /\ Log(j, Call("answer", SendFailedText(job[j].e), ok))
         /\ job' = [job EXCEPT ![j] =
              IF ok THEN [@ EXCEPT !.pc = "exit_tmp"] ELSE Raise(@, TransportError)]
    /\ UNCHANGED <<env, CONCURRENCY, scratch>>

\* handle_url: except Exception as e: the status message is rewritten.  If
\* the edit fails the exception escapes the handler.
EditFailed(j) ==
    /\ job[j].pc = "edit_failed"
    /\ \E ok \in Outcomes :
         LET text == FailedText(job[j].e) IN
         /\ Log(j, Call("edit_text", text, ok))
         /\ job' = [job EXCEPT ![j] =
              IF ok THEN [@ EXCEPT !.status_msg = text, !.pc = "exit_tmp"]
              ELSE EscapeTmp(@, TransportError)]
    /\ UNCHANGED <<env, CONCURRENCY, scratch>>

\* tempfile.mkdtemp() in place of the context manager: nothing removes the
\* directory when the block is left.
ExitTmpKeepsDirectory(j) ==
    /\ job[j].pc = "exit_tmp"
    /\ job' = [job EXCEPT ![j].pc = "exit_semaphore"]
    /\ UNCHANGED <<env, budget, CONCURRENCY, scratch, history>>

\* The exit of "with tempfile.TemporaryDirectory()": the directory and
\* everything in it is removed.
ExitTmp(j) ==
    /\ job[j].pc = "exit_tmp"
    /\ scratch' = [scratch EXCEPT ![j] = NoScratch]
    /\ job' = [job EXCEPT ![j].pc = "exit_semaphore"]
    /\ UNCHANGED <<env, budget, CONCURRENCY, history>>

\* The exit of "async with CONCURRENCY": the permit is released.
ExitSemaphore(j) ==
    /\ job[j].pc = "exit_semaphore"
    /\ CONCURRENCY' = release(CONCURRENCY)
    /\ job' = [job EXCEPT ![j] = Returned(@, @.escaped)]
    /\ UNCHANGED <<env, budget, scratch, history>>

\* The pipeline of one admitted job.
Pipeline(j) ==
    \/ AnswerDownloading(j)
    \/ RecordVideoAction(j)
    \/ Extract(j)
    \/ EditCompressing(j)
    \/ FfmpegCompress(j)
    \/ EditUploading(j)
    \/ UploadVideoAction(j)
    \/ AnswerTooLarge(j)
    \/ AnswerFile(j)
    \/ AnswerSendFailed(j)
    \/ EditFailed(j)
    \/ ExitTmp(j)
    \/ ExitSemaphore(j)

Next == \E j \in Jobs : HandleUrl(j) \/ AnswerReject(j) \/ Acquire(j) \/ Pipeline(j)

Spec == Init /\ [][Next]_vars

\* One job alone never waits for a permit.
NextJob == \E j \in Jobs : HandleUrl(j) \/ AnswerReject(j) \/ Pipeline(j)

SpecJob == InitJob /\ [][NextJob]_vars

\* The steps of the runs about the queue: those of a job whose download
\* needs no shrinking and whose upload goes through.
StepGate(j) ==
    \/ AnswerReject(j) \/ Acquire(j)
    \/ AnswerDownloading(j) \/ RecordVideoAction(j) \/ Extract(j)
    \/ EditUploading(j) \/ UploadVideoAction(j) \/ AnswerFile(j)
    \/ AnswerSendFailed(j) \/ EditFailed(j) \/ ExitTmp(j) \/ ExitSemaphore(j)

NextGate == \E j \in Jobs : HandleUrl(j) \/ StepGate(j)

SpecGate == InitGate /\ [][NextGate]_vars

\* The runs about waiting: every message carries a supported link.
InitFair ==
    Start([jobs |-> Jobs, texts |-> {SupportedText},
           names |-> {ExtractedName}, sizes |-> SmallSizes, big |-> {},
           outputs |-> {},
           faults |-> MaxFaults, large |-> 0, trace |-> FALSE])

StepFair(j) ==
    \/ Acquire(j)
    \/ AnswerDownloading(j) \/ RecordVideoAction(j) \/ Extract(j)
    \/ EditUploading(j) \/ UploadVideoAction(j) \/ AnswerFile(j)
    \/ AnswerSendFailed(j) \/ EditFailed(j) \/ ExitTmp(j) \/ ExitSemaphore(j)

NextFair == \E j \in Jobs : HandleUrl(j) \/ StepFair(j)

\* The event loop runs every task that is ready, and every call a job
\* awaits returns or raises: a job that can take its next step takes it.
\* Messages arrive when they arrive.
SpecGateFair == InitFair /\ [][NextFair]_vars /\ \A j \in Jobs : WF_vars(StepFair(j))


(* ------------------------- reading the history ------------------------ *)

Errors == {TransportError, ExtractError, NotFoundError, CompressError}

UploadOps == {"answer_video", "answer_document"}

IsUpload(c) == c.op \in UploadOps

IsFfmpeg(c) == c.op = "ffmpeg"

IsExtract(c) == c.op = "extract_info"

IsCompressingEdit(c) ==
    c.op = "edit_text" /\ \E n \in 1..Len(attempts) :
        c.text = CompressingText(attempts[n].max_h, attempts[n].crf)

IsUploadingEdit(c) == c.op = "edit_text" /\ c.text = UploadingText

IsFailedEdit(c) == c.op = "edit_text" /\ \E e \in Errors : c.text = FailedText(e)

\* A call that leaves the user with a terminal status: the file, the
\* size-exceeded message, the delivery-error message or the failure message.
IsTerminal(c) ==
    /\ c.ok
    /\ \/ IsUpload(c)
       \/ c.op = "answer" /\ c.text = TooLargeText
       \/ c.op = "answer" /\ \E e \in Errors : c.text = SendFailedText(e)
       \/ IsFailedEdit(c)

Calls(j) == 1..Len(history[j])

\* The job passed the URL test and the gate: its first call is the
\* "Downloading" status.
Admitted(j) ==
    history[j] # << >> /\ history[j][1].text # RejectText

\* The calls of ffmpeg, of the uploads, of yt-dlp, in the order made.
Ffmpegs(j) == SelectSeq(history[j], IsFfmpeg)
Uploads(j) == SelectSeq(history[j], IsUpload)
Extracts(j) == SelectSeq(history[j], IsExtract)

\* The program counters between the acquisition and the release of a permit.
SpanPcs ==
    {"answer_downloading", "record_video", "extract", "edit_compressing",
     "ffmpeg_compress", "edit_uploading", "upload_video", "answer_too_large",
     "answer_file", "answer_send_failed", "edit_failed", "exit_tmp",
     "exit_semaphore"}

InSpan(j) == job[j].pc \in SpanPcs

\* A queued job whose future is set has been handed a permit already.
Woken(j) ==
    job[j].pc = "acquire" /\ \E i \in Position(CONCURRENCY, j) : CONCURRENCY.waiters[i].done

Finished(j) == job[j].pc = "done"

(* ------------------------------- claims ------------------------------- *)

\* C1: every job that passed the URL test and the gate ends with a terminal
\* status sent to the user (the file, the size-exceeded message, the
\* delivery-error message or the failure message); no execution of
\* handle_url ends with the user having received only a progress status or
\* nothing, also when a transport call or an engine fails.
C1_EndsWithTerminalStatus ==
    \A j \in Jobs :
        Finished(j) /\ Admitted(j) => \E i \in Calls(j) : IsTerminal(history[j][i])

\* C2: at most 2 jobs are inside the extraction/shrink/delivery span at a
\* time, each of them backed by a permit taken from the semaphore, and a job
\* that waits for a permit has begun no pipeline step (no status message,
\* no scratch directory).
C2_AtMostTwoInSpan ==
    /\ Cardinality({j \in Jobs : InSpan(j)}) <= SemaphoreInit
    /\ CONCURRENCY.value >= 0
    /\ Cardinality({j \in Jobs : InSpan(j)}) + CONCURRENCY.value <= SemaphoreInit
    /\ \A j \in Jobs :
         job[j].pc = "acquire" => job[j].status_msg = "" /\ ~scratch[j].exists

\* Two jobs are in the span and a third one waits at the gate.
C2_Witness ==
    \E a, b, c \in Jobs :
        /\ a # b /\ InSpan(a) /\ InSpan(b)
        /\ job[c].pc = "acquire" /\ ~Woken(c)
        /\ job[a].pc = "extract"

\* C3: the permit comes back on every exit path, an escaping exception
\* included: free permits + permits held by running jobs = 2 in every
\* state, so once no job is running both permits are free again.
C3_PermitsConserved ==
    /\ CONCURRENCY.value + Cardinality({j \in Jobs : InSpan(j) \/ Woken(j)}) = SemaphoreInit
    /\ (\A j \in Jobs : ~InSpan(j) /\ ~Woken(j)) => CONCURRENCY.value = SemaphoreInit

\* An admitted job has ended by an escaping exception, another one has ended
\* normally, and both permits are free.
C3_Witness ==
    \E a, b \in Jobs :
        /\ Finished(a) /\ job[a].escaped /\ is_supported_url(job[a].url)
        /\ Finished(b) /\ ~job[b].escaped /\ is_supported_url(job[b].url)
        /\ CONCURRENCY.value = SemaphoreInit

\* C4: after any terminal outcome of a job, an escaping exception included,
\* its scratch directory and every artifact in it are gone.
C4_ScratchRemoved ==
    \A j \in Jobs : Finished(j) => ~scratch[j].exists /\ scratch[j].files = {}

\* A job that had transcoded artifacts on disk has ended by an exception
\* escaping the handler.
C4_Witness ==
    \E j \in Jobs :
        /\ Finished(j) /\ job[j].escaped
        /\ \E n \in 1..Len(Ffmpegs(j)) : Ffmpegs(j)[n].ok
        /\ scratch[j] = NoScratch


\* C5: no artifact whose size in bytes is above the hard ceiling of
\* 2000 * 1024 * 1024 bytes is handed to the transport: send_file calls
\* neither answer_video nor answer_document for it and goes to the
\* size-exceeded message instead.
C5_NoUploadAboveCeiling ==
    \A j \in Jobs :
        /\ \A n \in 1..Len(Uploads(j)) : Uploads(j)[n].bytes <= TELEGRAM_LIMIT_MB * MB
        /\ job[j].pc = "answer_file" =>
             Stat(scratch[j].files, job[j].filepath) <= TELEGRAM_LIMIT_MB * MB

\* C6: for a final artifact not above the hard ceiling the representation
\* follows from the size alone: at most 50 MB goes out by answer_video, more
\* than 50 MB and at most 2000 MB by answer_document; never both, and such
\* an artifact is not rejected as too large.
C6_RepresentationBySize ==
    \A j \in Jobs :
        /\ Len(Uploads(j)) <= 1
        /\ \A n \in 1..Len(Uploads(j)) :
             LET c == Uploads(j)[n] IN
             /\ c.bytes <= SEND_AS_VIDEO_THRESHOLD_MB * MB => c.op = "answer_video"
             /\ (c.bytes > SEND_AS_VIDEO_THRESHOLD_MB * MB /\ c.bytes <= TELEGRAM_LIMIT_MB * MB)
                   => c.op = "answer_document"
        /\ job[j].pc = "answer_too_large" =>
             Stat(scratch[j].files, job[j].filepath) > TELEGRAM_LIMIT_MB * MB

\* C7: an extracted artifact of at most 1900 MB is never transcoded: ffmpeg
\* is not called, no "Compressing" status is sent, and the path the job goes
\* on with (and uploads) is the extracted one.
C7_NoShrinkAtOrBelowSafe ==
    \A j \in Jobs : \A n \in 1..Len(Extracts(j)) :
        LET x == Extracts(j)[n] IN
        (x.ok /\ x.bytes > 0 /\ x.bytes <= SAFE_LIMIT_MB * MB) =>
            /\ Len(Ffmpegs(j)) = 0
            /\ \A i \in Calls(j) : ~IsCompressingEdit(history[j][i])
            /\ InSpan(j) => job[j].filepath = x.dst
            /\ \A u \in 1..Len(Uploads(j)) :
                 Uploads(j)[u].src = x.dst /\ Uploads(j)[u].bytes = x.bytes

\* An artifact of exactly 1900 MB was extracted and has been uploaded as is.
C7_Witness ==
    \E j \in Jobs :
        /\ Len(Extracts(j)) = 1 /\ Extracts(j)[1].ok
        /\ Extracts(j)[1].bytes = SAFE_LIMIT_MB * MB
        /\ Len(Uploads(j)) = 1 /\ Uploads(j)[1].ok
        /\ Uploads(j)[1].src = Extracts(j)[1].dst

\* The calls of ffmpeg of a job follow the ladder (480,28), (480,30),
\* (360,28), (360,30): the n-th call uses the n-th entry.  After an attempt
\* whose output is at most 1900 MB no further entry is tried, and that
\* output is the path the ladder returns (and the only one uploaded).
LadderInOrder(j) ==
    LET F == Ffmpegs(j) IN
    /\ Len(F) <= Len(attempts)
    /\ \A n \in 1..Len(F) :
         /\ F[n].max_h = attempts[n].max_h /\ F[n].crf = attempts[n].crf
         /\ (F[n].ok /\ F[n].bytes <= SAFE_LIMIT_MB * MB) =>
              /\ n = Len(F)
              /\ job[j].pc \notin {"edit_compressing", "ffmpeg_compress"}
              /\ InSpan(j) => job[j].filepath = F[n].dst
              /\ \A u \in 1..Len(Uploads(j)) : Uploads(j)[u].src = F[n].dst
    /\ Len(F) > 0 => F[1].max_h = 480 /\ F[1].crf = 28

\* The call after the i-th one is the "Compressing" status of the n-th
\* entry of the ladder (or the job is about to make it).
CompressingNext(j, i, n) ==
    IF i = Len(history[j])
    THEN job[j].pc = "edit_compressing" /\ job[j].k = n
    ELSE /\ history[j][i + 1].op = "edit_text"
         /\ history[j][i + 1].text = CompressingText(attempts[n].max_h, attempts[n].crf)

\* An extracted artifact above 1900 MB enters the ladder, and the ladder
\* goes on to the next entry after an output that is still above 1900 MB.
LadderGoesOn(j) ==
    \A i \in Calls(j) :
        LET c == history[j][i] IN
        /\ (IsExtract(c) /\ c.ok /\ c.bytes > SAFE_LIMIT_MB * MB) => CompressingNext(j, i, 1)
        /\ (IsFfmpeg(c) /\ c.ok /\ c.bytes > SAFE_LIMIT_MB * MB) =>
             \A n \in 1..(Len(attempts) - 1) :
                 (c.max_h = attempts[n].max_h /\ c.crf = attempts[n].crf)
                     => CompressingNext(j, i, n + 1)

\* C8: for an artifact above 1900 MB the ladder calls ffmpeg with the
\* entries (480,28), (480,30), (360,28), (360,30) in that order, none
\* skipped or repeated, and stops at the first attempt whose output is at
\* most 1900 MB: it goes on after a larger output, tries no entry after a
\* fitting one, and returns the fitting output.
C8_LadderInOrderStopsAtFirstFit ==
    \A j \in Jobs : LadderInOrder(j) /\ LadderGoesOn(j)

\* The position in the history of the last call of ffmpeg.
LastFfmpeg(j) ==
    CHOOSE i \in Calls(j) :
        IsFfmpeg(history[j][i]) /\ \A m \in Calls(j) : IsFfmpeg(history[j][m]) => m <= i

\* C9: when all four attempts ran and each output is above 1900 MB, the
\* ladder returns the fourth output (not the extracted file, not an earlier
\* output), and the job goes on to the "Uploading" status and send_file with
\* it instead of failing.
C9_ExhaustedLadderReturnsLast ==
    \A j \in Jobs :
        LET F == Ffmpegs(j) IN
        (Len(F) = Len(attempts) /\ \A n \in 1..Len(F) : F[n].ok /\ F[n].bytes > SAFE_LIMIT_MB * MB)
        =>  /\ InSpan(j) => job[j].filepath = F[4].dst
            /\ \A n \in 1..3 : F[4].dst # F[n].dst
            /\ \A x \in 1..Len(Extracts(j)) : F[4].dst # Extracts(j)[x].dst
            /\ IF LastFfmpeg(j) = Len(history[j])
               THEN job[j].pc = "edit_uploading" /\ job[j].e = ""
               ELSE IsUploadingEdit(history[j][LastFfmpeg(j) + 1])
            /\ job[j].pc \in {"upload_video", "answer_too_large", "answer_file"} =>
                 Stat(scratch[j].files, job[j].filepath) = F[4].bytes
            /\ \A u \in 1..Len(Uploads(j)) :
                 Uploads(j)[u].src = F[4].dst /\ Uploads(j)[u].bytes = F[4].bytes

\* All four attempts came out above 1900 MB and the fourth output has been
\* uploaded.
C9_Witness ==
    \E j \in Jobs :
        LET F == Ffmpegs(j) IN
        /\ Len(F) = 4
        /\ \A n \in 1..4 : F[n].ok /\ F[n].bytes > SAFE_LIMIT_MB * MB
        /\ Len(Uploads(j)) = 1 /\ Uploads(j)[1].ok /\ Uploads(j)[1].src = F[4].dst

IsStatus(c) ==
    c.ok /\ (c.op = "edit_text" \/ (c.op = "answer" /\ c.text = DownloadingText("YouTube"))
                                \/ (c.op = "answer" /\ c.text = DownloadingText("Instagram")))

\* The text the status message shows: that of the last status call that
\* succeeded.
StatusShown(j) ==
    LET S == SelectSeq(history[j], IsStatus)
    IN  IF S = << >> THEN "" ELSE S[Len(S)].text

\* After a failed call of ffmpeg no later entry of the ladder is tried,
\* nothing is uploaded, the "Uploading" status is never sent, and the call
\* that follows is the rewrite of the status message to the failure message.
AbortsLadder(j) ==
    \A i \in Calls(j) :
        (IsFfmpeg(history[j][i]) /\ ~history[j][i].ok) =>
            /\ \A m \in Calls(j) : m > i => ~IsFfmpeg(history[j][m])
            /\ \A m \in Calls(j) : ~IsUpload(history[j][m]) /\ ~IsUploadingEdit(history[j][m])
            /\ IF i = Len(history[j])
               THEN job[j].pc = "edit_failed" /\ job[j].e = CompressError
               ELSE /\ i + 1 = Len(history[j])
                    /\ history[j][i + 1].op = "edit_text"
                    /\ history[j][i + 1].text = FailedText(CompressError)

\* C10: when ffmpeg fails at attempt k, no later entry is tried, nothing is
\* uploaded, the "Uploading" status is never shown, and the job ends with
\* the status message rewritten to the failure message.
C10_TranscodeFailureAborts ==
    \A j \in Jobs :
        /\ AbortsLadder(j)
        /\ \A i \in Calls(j) :
             (IsFfmpeg(history[j][i]) /\ ~history[j][i].ok /\ Finished(j))
                 => StatusShown(j) = FailedText(CompressError)

\* yt-dlp raised, or the path it reported does not exist.
ExtractionFailed(c) == IsExtract(c) /\ (~c.ok \/ c.bytes = 0)

\* The message of the exception an extraction failure raises.
ExtractionError(c) == IF c.ok THEN NotFoundError ELSE ExtractError

\* After an extraction failure nothing is transcoded or uploaded, the call
\* that follows is the rewrite of the status message to the failure message
\* with the error text, it is the job's last call, and the scratch
\* directory is gone when the job has ended.
ExtractionFailureAborts(j) ==
    \A i \in Calls(j) :
        ExtractionFailed(history[j][i]) =>
            /\ Len(Ffmpegs(j)) = 0 /\ Len(Uploads(j)) = 0
            /\ \A m \in Calls(j) : ~IsCompressingEdit(history[j][m]) /\ ~IsUploadingEdit(history[j][m])
            /\ IF i = Len(history[j])
               THEN job[j].pc = "edit_failed" /\ job[j].e = ExtractionError(history[j][i])
               ELSE /\ i + 1 = Len(history[j])
                    /\ history[j][i + 1].op = "edit_text"
                    /\ history[j][i + 1].text = FailedText(ExtractionError(history[j][i]))
            /\ Finished(j) => scratch[j] = NoScratch

\* C11: on extraction failure (yt-dlp raises, or the resolved path does not
\* exist) the job shows exactly one failure message with the raw error text
\* by rewriting the status message, transcodes and uploads nothing, and its
\* scratch directory is removed.
C11_ExtractionFailureReported ==
    \A j \in Jobs :
        /\ ExtractionFailureAborts(j)
        /\ \A i \in Calls(j) :
             (ExtractionFailed(history[j][i]) /\ Finished(j)) =>
                 /\ StatusShown(j) = FailedText(ExtractionError(history[j][i]))
                 /\ Cardinality({m \in Calls(j) : history[j][m].ok /\ IsFailedEdit(history[j][m])}) = 1

IsSendFailed(c) == c.op = "answer" /\ \E e \in Errors : c.text = SendFailedText(e)

\* A failed upload is caught in send_file: the call that follows is the
\* delivery-error message with the error text, the upload is not tried
\* again, and once the job has ended its scratch directory is gone and no
\* permit is held.
UploadFailureCaught(j) ==
    \A i \in Calls(j) :
        (IsUpload(history[j][i]) /\ ~history[j][i].ok) =>
            /\ Len(Uploads(j)) = 1
            /\ IF i = Len(history[j])
               THEN job[j].pc = "answer_send_failed" /\ job[j].e = TransportError
               ELSE /\ history[j][i + 1].op = "answer"
                    /\ history[j][i + 1].text = SendFailedText(TransportError)
            /\ Finished(j) =>
                 /\ scratch[j] = NoScratch
                 /\ CONCURRENCY.value + Cardinality({m \in Jobs : InSpan(m) \/ Woken(m)})
                      = SemaphoreInit

\* C12: when answer_video or answer_document fails, the failure is caught in
\* send_file and the user receives the delivery-error message with the raw
\* error text; the upload is attempted at most once, and the job ends with
\* its scratch directory removed and its permit released.
C12_UploadFailureReported ==
    \A j \in Jobs :
        /\ UploadFailureCaught(j)
        /\ \A i \in Calls(j) :
             (IsUpload(history[j][i]) /\ ~history[j][i].ok /\ Finished(j)) =>
                 \E m \in Calls(j) : m > i /\ history[j][m].ok /\ IsSendFailed(history[j][m])

\* C13: for a message whose text matches neither pattern the handler's one
\* and only call is the rejection reply: no status message is sent, no
\* scratch directory is created, nothing is extracted, transcoded or
\* uploaded, and no permit is asked for.
C13_UnsupportedOnlyRejected ==
    \A j \in Jobs :
        (job[j].pc # "idle" /\ ~YOUTUBE_RE(job[j].url) /\ ~INSTAGRAM_RE(job[j].url)) =>
            /\ job[j].pc \in {"answer_reject", "done"}
            /\ job[j].status_msg = "" /\ scratch[j] = NoScratch
            /\ Len(history[j]) <= 1
            /\ \A i \in Calls(j) :
                 history[j][i].op = "answer" /\ history[j][i].text = RejectText
            /\ Finished(j) => Len(history[j]) = 1
            /\ CONCURRENCY.value = SemaphoreInit

\* A link to a supported site that matches neither pattern (a playlist) has
\* been answered with the rejection message, and the handler has returned.
C13_Witness ==
    \E j \in Jobs :
        /\ Finished(j) /\ job[j].url = UnsupportedText
        /\ Len(history[j]) = 1 /\ history[j][1].ok /\ history[j][1].text = RejectText

IsSendFileCall(c) ==
    \/ c.op = "send_chat_action" /\ c.text = "upload_video"
    \/ c.op = "answer" /\ c.text = TooLargeText
    \/ IsUpload(c)
    \/ IsSendFailed(c)

IsDownloadingAnswer(c) ==
    c.op = "answer" /\ c.text \in {DownloadingText("YouTube"), DownloadingText("Instagram")}

\* C15: within one job the "Downloading" status is sent before yt-dlp
\* starts; each call of ffmpeg directly follows the "Compressing" status
\* that names its height and CRF; the "Uploading" status comes after yt-dlp
\* and every call of ffmpeg and before any call of send_file; and no
\* "Compressing" status follows an "Uploading" status.
C15_StatusOrder ==
    \A j \in Jobs : \A i \in Calls(j) :
        LET c == history[j][i] IN
        /\ IsExtract(c) =>
             /\ history[j][1].ok /\ IsDownloadingAnswer(history[j][1])
             /\ \A m \in 1..(i - 1) : ~IsStatus(history[j][m]) \/ m = 1
        /\ IsFfmpeg(c) =>
             /\ i > 1 /\ history[j][i - 1].ok /\ history[j][i - 1].op = "edit_text"
             /\ history[j][i - 1].text = CompressingText(c.max_h, c.crf)
        /\ IsUploadingEdit(c) =>
             /\ \E m \in 1..(i - 1) : IsExtract(history[j][m]) /\ history[j][m].ok
             /\ \A m \in Calls(j) :
                  (IsExtract(history[j][m]) \/ IsFfmpeg(history[j][m])
                     \/ IsCompressingEdit(history[j][m])) => m < i
        /\ IsSendFileCall(c) =>
             \E m \in 1..(i - 1) : history[j][m].ok /\ IsUploadingEdit(history[j][m])

\* A job went through two ladder attempts and then uploaded the result.
C15_Witness ==
    \E j \in Jobs :
        /\ Finished(j) /\ Len(Ffmpegs(j)) = 2
        /\ Len(Uploads(j)) = 1 /\ Uploads(j)[1].ok
        /\ \E i \in Calls(j) : history[j][i].ok /\ IsUploadingEdit(history[j][i])

\* The artifacts a job has produced so far, in order: the extracted file,
\* then the output of every call of ffmpeg that succeeded.
IsArtifact(c) == (IsExtract(c) \/ IsFfmpeg(c)) /\ c.ok /\ c.bytes > 0

Artifacts(j) == SelectSeq(history[j], IsArtifact)

\* C16: the artifact a job hands to send_file and uploads is the one current
\* when the ladder returns: the extracted file when ffmpeg never ran,
\* otherwise the last output.  It is one existing file; the superseded
\* artifacts stay in the scratch directory until it is removed but are
\* never sent, and a job uploads at most once.
C16_OnlyCurrentArtifactSent ==
    \A j \in Jobs :
        LET A == Artifacts(j) IN
        /\ Len(Uploads(j)) <= 1
        /\ \A u \in 1..Len(Uploads(j)) :
             /\ Len(A) > 0
             /\ Uploads(j)[u].src = A[Len(A)].dst
             /\ Uploads(j)[u].bytes = A[Len(A)].bytes
             /\ \A n \in 1..(Len(A) - 1) : Uploads(j)[u].src # A[n].dst
        /\ job[j].pc \in {"edit_uploading", "upload_video", "answer_too_large", "answer_file"} =>
             /\ Len(A) > 0 /\ job[j].filepath = A[Len(A)].dst
             /\ Exists(scratch[j].files, job[j].filepath)
        /\ scratch[j].exists =>
             /\ \A n \in 1..Len(A) :
                  /\ Exists(scratch[j].files, A[n].dst)
                  /\ Stat(scratch[j].files, A[n].dst) = A[n].bytes
             /\ \A n, m \in 1..Len(A) : n # m => A[n].dst # A[m].dst

\* The extracted file and two outputs of ffmpeg are in the scratch
\* directory, and the second output has been uploaded.
C16_Witness ==
    \E j \in Jobs :
        /\ Len(Artifacts(j)) = 3 /\ Len(Ffmpegs(j)) = 2
        /\ Len(Uploads(j)) = 1 /\ Uploads(j)[1].ok
        /\ Uploads(j)[1].src = Artifacts(j)[3].dst
        /\ scratch[j].exists /\ Cardinality(scratch[j].files) = 3

\* C17: a job waiting at the gate is eventually admitted, when the event
\* loop runs every ready task and the calls of the admitted jobs return.
C17_WaitingEventuallyAdmitted ==
    \A j \in Jobs : (job[j].pc = "acquire") ~> (job[j].pc = "answer_downloading")

\* A waiting job has been handed the permit that a job ending by an
\* escaping exception gave back.
C17_Witness ==
    \E a, h \in Jobs :
        /\ Woken(a)
        /\ Finished(h) /\ job[h].escaped /\ is_supported_url(job[h].url)

\* C18: the first call of ffmpeg reads the extracted file and every later
\* one reads the output of the call before it; the destination of a call
\* differs from its source, from the extracted file and from every earlier
\* destination.
C18_AttemptsCascade ==
    \A j \in Jobs :
        LET F == Ffmpegs(j) IN
        \A n \in 1..Len(F) :
            /\ Len(Extracts(j)) = 1
            /\ F[n].src = (IF n = 1 THEN Extracts(j)[1].dst ELSE F[n - 1].dst)
            /\ F[n].dst # F[n].src
            /\ F[n].dst # Extracts(j)[1].dst
            /\ \A m \in 1..(n - 1) : F[n].dst # F[m].dst /\ F[n].dst # F[m].src

\* Three attempts ran on a file whose name already ends like the output of
\* the first entry of the ladder.
C18_Witness ==
    \E j \in Jobs :
        /\ Len(Ffmpegs(j)) = 3 /\ \A n \in 1..3 : Ffmpegs(j)[n].ok
        /\ Extracts(j)[1].dst = <<"clip", "480p", "crf28", "mp4">>
        /\ Ffmpegs(j)[3].src = Ffmpegs(j)[2].dst

\* The text of the job matches neither pattern.
Unsupported(j) == job[j].pc # "idle" /\ ~YOUTUBE_RE(job[j].url) /\ ~INSTAGRAM_RE(job[j].url)

\* C19: a request with an unsupported URL never takes or waits for a
\* permit, and the steps that handle it (the URL test and the rejection
\* reply) leave the semaphore, the scratch directories and every other job
\* as they were, whatever the state of the gate.
C19_RejectionLeavesGateAlone ==
    /\ [](\A j \in Jobs :
            Unsupported(j) =>
                /\ job[j].pc \in {"answer_reject", "done"}
                /\ Position(CONCURRENCY, j) = {}
                /\ ~scratch[j].exists)
    /\ [][\A j \in Jobs :
            (job'[j] # job[j] /\ (job'[j].pc = "answer_reject" \/ job[j].pc = "answer_reject")) =>
                /\ CONCURRENCY' = CONCURRENCY
                /\ scratch' = scratch
                /\ \A m \in Jobs \ {j} : job'[m] = job[m]
                /\ job[j].pc = "answer_reject" => job'[j].pc = "done"]_vars

\* The rejection reply has gone out while both permits were held and a
\* third job was waiting in the queue.
C19_Witness ==
    \E r, a, b, w \in Jobs :
        /\ a # b /\ InSpan(a) /\ InSpan(b)
        /\ job[w].pc = "acquire" /\ ~Woken(w)
        /\ r > a /\ r > b /\ r > w
        /\ Unsupported(r) /\ Finished(r) /\ ~job[r].escaped
        /\ CONCURRENCY.value = 0

\* The jobs whose scratch directory exists.
WithScratch == {j \in Jobs : scratch[j].exists}

\* C20: a scratch directory exists only while its job holds a permit: it is
\* created after the permit is taken (after the "Downloading" status) and
\* removed before the permit is released, the failure message being written
\* while it still exists.  So the existing scratch directories are at most
\* as many as the held permits, at most 2.
C20_ScratchWithinPermit ==
    /\ \A j \in Jobs :
         /\ scratch[j].exists =>
              InSpan(j) /\ job[j].pc \notin {"answer_downloading", "exit_semaphore"}
         /\ ~scratch[j].exists => scratch[j].files = {}
         /\ job[j].pc = "edit_failed" => scratch[j].exists
    /\ WithScratch \subseteq {j \in Jobs : InSpan(j)}
    /\ Cardinality(WithScratch) <= SemaphoreInit - CONCURRENCY.value
    /\ Cardinality(WithScratch) <= SemaphoreInit

\* Two scratch directories exist, both permits are held, and one of the two
\* jobs is about to write its failure message.
C20_Witness ==
    \E a, b \in Jobs :
        /\ a # b /\ scratch[a].exists /\ scratch[b].exists
        /\ CONCURRENCY.value = 0
        /\ job[a].pc = "edit_failed"

====
